---- MODULE Spec2Model ----
(***************************************************************************)
(* slothtime-rs: the modal cursor/editing state machine of src/app.rs      *)
(* (App::new, App::run, App::handle_key and the methods they call) with    *)
(* the entry model of src/time_entry.rs.                                   *)
(*                                                                         *)
(* A Rust String is modelled as the sequence of its UTF-8 bytes, so that   *)
(* String::len, String::insert and String::remove keep their byte-offset   *)
(* semantics (text_cursor is a byte offset that the code advances by one   *)
(* per typed character).  A panic ends the process: pc becomes             *)
(* "panicked" and the other variables keep the last values they had.       *)
(***************************************************************************)
EXTENDS Integers, Sequences, FiniteSets, TLC

\* ------------------------------------------------------------------ bounds

\* Number of successful character insertions/deletions explored in one run.
MaxEdits == 1
\* Characters are typed and deleted while the list has at most this many rows.
MaxEditRows == 1
\* popup_scroll is a usize that Down increments without limit; explored up to:
MaxScroll == 1
\* With a zero-entry list and wrapping arithmetic cursor.row grows without
\* limit; explored up to:
MaxWrapRow == 2

\* ------------------------------------------------------------------ strings

\* Continuation bytes of the one two-byte character of the alphabet (U+00E9).
Cont == {"A9"}

\* The UTF-8 encoding of a typed character.
Bytes(c) == IF c = "e_acute" THEN <<"C3", "A9">> ELSE <<c>>

\* str::is_char_boundary: offset 0, the length, or the start of a character.
is_char_boundary(s, i) ==
    \/ i = 0
    \/ i = Len(s)
    \/ (i > 0 /\ i < Len(s) /\ s[i + 1] \notin Cont)

\* Width in bytes of the character that starts at byte offset i.
char_width(s, i) == IF i + 2 <= Len(s) /\ s[i + 2] \in Cont THEN 2 ELSE 1

\* String::insert(idx, ch) panics unless idx is a character boundary.
insert_panics(s, idx) == ~is_char_boundary(s, idx)
String_insert(s, idx, c) == SubSeq(s, 1, idx) \o Bytes(c) \o SubSeq(s, idx + 1, Len(s))

\* String::remove(idx) panics at the end of the string and off a boundary;
\* otherwise it removes the whole character that starts at idx.
remove_panics(s, idx) == idx >= Len(s) \/ ~is_char_boundary(s, idx)
String_remove(s, idx) ==
    SubSeq(s, 1, idx) \o SubSeq(s, idx + char_width(s, idx) + 1, Len(s))

\* str::lines: split at "\n"; a final line ending yields no extra empty line.
RECURSIVE SplitNL(_)
SplitNL(s) ==
    IF \A i \in 1..Len(s) : s[i] # "\n"
    THEN <<s>>
    ELSE LET i == CHOOSE j \in 1..Len(s) :
                      s[j] = "\n" /\ \A m \in 1..(j - 1) : s[m] # "\n"
         IN  <<SubSeq(s, 1, i - 1)>> \o SplitNL(SubSeq(s, i + 1, Len(s)))

lines(s) ==
    LET p == SplitNL(s)
    IN  IF p[Len(p)] = <<>> THEN SubSeq(p, 1, Len(p) - 1) ELSE p

\* ------------------------------------------------------------------ TimeEntry

TimeEntry_new ==
    [task_number |-> <<>>, work_code |-> <<>>, time_entry |-> <<>>,
     start_time |-> <<>>, end_time |-> <<>>]

is_complete(e) ==
    /\ e.task_number # <<>>
    /\ e.work_code # <<>>
    /\ e.time_entry # <<>>
    /\ e.start_time # <<>>
    /\ e.end_time # <<>>

\* The `match self.cursor.col { 1 => task_number, ... }` of app.rs.
FieldName(col) ==
    CASE col = 1 -> "task_number"
      [] col = 2 -> "work_code"
      [] col = 3 -> "time_entry"
      [] col = 4 -> "start_time"
      [] col = 5 -> "end_time"

Cursor_new == [row |-> 0, col |-> 1]

\* entries[row] in the code's 0-based indexing.
At(es, row) == es[row + 1]

\* ------------------------------------------------------------------ keys

\* KeyCode::Char(c) keys without a modifier that the model presses.  "a" stands
\* for an ordinary one-byte character, "e_acute" for a two-byte one.
CharKeys == {"q", "d", "i", "?", "y", "Y", "n", "N", "a", "e_acute"}
\* KeyCode::Char(c) with KeyModifiers::CONTROL.
CtrlKeys == {"^s", "^x", "^y"}
\* The other key codes; "F1" stands for every code no arm names.
OtherKeys == {"Tab", "BackTab", "Up", "Down", "Left", "Right", "Esc", "Enter",
              "Home", "End", "Backspace", "F1"}
Keys == CharKeys \cup CtrlKeys \cup OtherKeys

IsChar(k) == k \in CharKeys \cup CtrlKeys
\* The c of KeyCode::Char(c).
KeyChar(k) ==
    CASE k = "^s" -> "s"
      [] k = "^x" -> "x"
      [] k = "^y" -> "y"
      [] OTHER -> k

\* In Editing and EditingPopup every Char(c) takes the same arm (insert_char),
\* so the characters typed there are two representatives: a one-byte letter
\* (one that is a command in Navigation) and a two-byte letter.
TypedKeys == {"d", "e_acute"}

\* The keys pressed in mode m: every key some arm of that mode names, and
\* representatives of the keys that fall to its catch-all arm.
KeysFor(m) ==
    CASE m = "Navigation" ->
            {"q", "^s", "^x", "^y", "d", "i", "?", "Tab", "BackTab", "Up", "Down",
             "Left", "Right", "Esc", "y", "F1"}
      [] m = "Editing" -> OtherKeys \cup TypedKeys
      [] m = "ViewingPopup" ->
            {"i", "^y", "Tab", "BackTab", "Up", "Down", "Left", "Right", "Esc",
             "d", "F1"}
      [] m = "EditingPopup" -> OtherKeys \cup TypedKeys \cup {"^y"}
      [] m = "Help" -> {"F1", "q", "Esc"}
      [] OTHER -> Keys

\* ------------------------------------------------------------------ environment

\* What the collaborators answer during one handler: the result of
\* save_entries, of export_csv, of the clipboard, and whether the build
\* checks integer overflow (debug) or wraps (release).
SaveResults == {"ok", "err"}
ExportResults == {"ok", "err"}
ClipResults == {"ok", "set_failed", "no_access"}
Env == [save : SaveResults, export : ExportResults, clip : ClipResults,
        overflow_checks : BOOLEAN]

\* The collaborators of a run: the answers they may give.  Nominal storage
\* and clipboard always succeed; Faulty ones may fail at any call.
Nominal == [save |-> {"ok"}, export |-> ExportResults, clip |-> {"ok"}]
Faulty == [save |-> SaveResults, export |-> ExportResults, clip |-> ClipResults]
\* A storage that may fail at any save_entries call, the rest succeeding.
FaultyStorage == [save |-> SaveResults, export |-> {"ok"}, clip |-> {"ok"}]

\* The answers that can make a difference to a step: those of the
\* collaborators the step can call (saving: whether it may call save_entries;
\* k: the key handled, "" for a step that handles none; empty: whether the
\* list has zero entries, the only case in which `len() - 1` overflows).
EnvFor(co, saving, k, empty) ==
    [save : IF saving THEN co.save ELSE {"ok"},
     export : IF k = "^s" THEN co.export ELSE {"ok"},
     clip : IF k = "^y" THEN co.clip ELSE {"ok"},
     overflow_checks : IF empty THEN BOOLEAN ELSE {TRUE}]

\* ------------------------------------------------------------------ App methods
\* Each method is a function from the App value `self` (plus the collaborators'
\* answers) to the App value it leaves.  Beyond the fields of struct App the
\* value carries the log of the save_entries calls made (saves), the count of
\* edits explored, the panicked flag, and whether the step read the clock:
\* for message_timer (shown) or for last_save_time (stamped).

Panic(self) == [self EXCEPT !.panicked = TRUE]

show_message(self, msg) ==
    [self EXCEPT !.status_message = msg, !.message_timer = "Some", !.shown = TRUE]

\* entries.json holding the serialised list l, resp. missing or not parseable.
File(l) == [readable |-> TRUE, list |-> l]
Unreadable == [readable |-> FALSE, list |-> <<>>]

\* save_entries: serialise self.entries and hand it to the file system
\* (backup, retention sweep, fs::write of entries.json).  The storage is a
\* collaborator: the call is recorded with the list it was given and the
\* result it returned.
save_entries(self, env) ==
    [self EXCEPT !.saves = Append(@, [list |-> self.entries, result |-> env.save])]

auto_save(self, env) ==
    LET s == save_entries(self, env)
    IN  IF env.save # "ok"
        THEN show_message(s, <<"Save failed">>)
        ELSE [s EXCEPT !.stamped = TRUE]

get_current_field_length(self) ==
    IF self.cursor.row < Len(self.entries)
    THEN IF self.cursor.col \in 1..5
         THEN Len(At(self.entries, self.cursor.row)[FieldName(self.cursor.col)])
         ELSE 0
    ELSE 0

update_text_cursor(self) ==
    IF self.cursor.row < Len(self.entries)
    THEN [self EXCEPT !.text_cursor =
            IF self.cursor.col \in 1..5
            THEN Len(At(self.entries, self.cursor.row)[FieldName(self.cursor.col)])
            ELSE 0]
    ELSE self

\* update_mode_for_column with the Editing -> EditingPopup arm left out.
update_mode_for_column_no_edit_popup(self) ==
    LET s == IF self.cursor.col = 3
             THEN [self EXCEPT !.mode =
                     CASE @ = "Navigation" -> "ViewingPopup"
                       [] OTHER -> @]
             ELSE [self EXCEPT !.mode =
                     CASE @ = "ViewingPopup" -> "Navigation"
                       [] @ = "EditingPopup" -> "Editing"
                       [] OTHER -> @,
                   !.popup_scroll = 0]
    IN  update_text_cursor(s)

update_mode_for_column(self) ==
    LET s == IF self.cursor.col = 3
             THEN [self EXCEPT !.mode =
                     CASE @ = "Navigation" -> "ViewingPopup"
                       [] @ = "Editing" -> "EditingPopup"
                       [] OTHER -> @]
             ELSE [self EXCEPT !.mode =
                     CASE @ = "ViewingPopup" -> "Navigation"
                       [] @ = "EditingPopup" -> "Editing"
                       [] OTHER -> @,
                   !.popup_scroll = 0]
    IN  update_text_cursor(s)

\* next_row without the auto-created row: on the last row the cursor stays.
next_row_no_append(self, env) ==
    IF Len(self.entries) = 0
    THEN IF env.overflow_checks
         THEN Panic(self)
         ELSE update_mode_for_column([self EXCEPT !.cursor.row = @ + 1])
    ELSE IF self.cursor.row < Len(self.entries) - 1
    THEN update_mode_for_column([self EXCEPT !.cursor.row = @ + 1])
    ELSE IF self.cursor.row >= Len(self.entries)
    THEN Panic(self)
    ELSE update_mode_for_column(self)

\* `self.entries.len() - 1` on a zero-entry list overflows: a panic with
\* overflow checks, usize::MAX without (then row < usize::MAX always holds).
next_row(self, env) ==
    IF Len(self.entries) = 0
    THEN IF env.overflow_checks
         THEN Panic(self)
         ELSE update_mode_for_column([self EXCEPT !.cursor.row = @ + 1])
    ELSE IF self.cursor.row < Len(self.entries) - 1
    THEN update_mode_for_column([self EXCEPT !.cursor.row = @ + 1])
    ELSE IF self.cursor.row >= Len(self.entries)
    THEN Panic(self)   \* entries[row]: index out of bounds
    ELSE IF is_complete(At(self.entries, self.cursor.row))
    THEN update_mode_for_column(
            [self EXCEPT !.entries = Append(@, TimeEntry_new), !.cursor.row = @ + 1])
    ELSE update_mode_for_column(self)

prev_row(self) ==
    update_mode_for_column(
        IF self.cursor.row > 0 THEN [self EXCEPT !.cursor.row = @ - 1] ELSE self)

next_col(self, env) ==
    IF self.cursor.col < 5
    THEN update_mode_for_column([self EXCEPT !.cursor.col = @ + 1])
    ELSE LET s == next_row([self EXCEPT !.cursor.col = 1], env)
         IN  IF s.panicked THEN s ELSE update_mode_for_column(s)

prev_col(self) ==
    IF self.cursor.col > 1
    THEN update_mode_for_column([self EXCEPT !.cursor.col = @ - 1])
    ELSE update_mode_for_column(
            [self EXCEPT !.cursor.col = 5,
                         !.cursor.row = IF @ > 0 THEN @ - 1 ELSE @])

\* The kind of the line-locating loop shared by the two vertical moves: the
\* first line l with char_count + len(l) >= text_cursor, where char_count is
\* the sum of (len + 1) over the lines before it; (0, 0) when no line matches.
RECURSIVE CharCount(_, _)
CharCount(ls, n) == IF n = 0 THEN 0 ELSE CharCount(ls, n - 1) + Len(ls[n]) + 1

LocateLine(ls, tc) ==
    LET hits == {i \in 1..Len(ls) : CharCount(ls, i - 1) + Len(ls[i]) >= tc}
    IN  IF hits = {}
        THEN [current_line |-> 0, pos_in_line |-> 0]
        ELSE LET i == CHOOSE j \in hits : \A m \in hits : j <= m
             IN  [current_line |-> i - 1, pos_in_line |-> tc - CharCount(ls, i - 1)]

Min(a, b) == IF a <= b THEN a ELSE b

move_cursor_up_in_text(self) ==
    IF self.cursor.col # 3 \/ self.cursor.row >= Len(self.entries)
    THEN self
    ELSE LET ls == lines(At(self.entries, self.cursor.row).time_entry)
         IN  IF ls = <<>>
             THEN self
             ELSE LET at == LocateLine(ls, self.text_cursor)
                  IN  IF at.current_line > 0
                      THEN [self EXCEPT !.text_cursor =
                              CharCount(ls, at.current_line - 1)
                              + Min(at.pos_in_line, Len(ls[at.current_line]))]
                      ELSE self

move_cursor_down_in_text(self) ==
    IF self.cursor.col # 3 \/ self.cursor.row >= Len(self.entries)
    THEN self
    ELSE LET ls == lines(At(self.entries, self.cursor.row).time_entry)
         IN  IF ls = <<>>
             THEN self
             ELSE LET at == LocateLine(ls, self.text_cursor)
                  IN  IF at.current_line < Len(ls) - 1
                      THEN [self EXCEPT !.text_cursor =
                              CharCount(ls, at.current_line + 1)
                              + Min(at.pos_in_line, Len(ls[at.current_line + 2]))]
                      ELSE self

\* enter_edit that empties the field it opens.
enter_edit_clearing(self) ==
    LET s == IF self.cursor.row < Len(self.entries) /\ self.cursor.col \in 1..5
             THEN [self EXCEPT !.entries[self.cursor.row + 1][FieldName(self.cursor.col)] = <<>>]
             ELSE self
    IN  update_text_cursor(
            [s EXCEPT !.mode =
                IF @ = "ViewingPopup" THEN "EditingPopup"
                ELSE IF s.cursor.col = 3 THEN "EditingPopup" ELSE "Editing"])

enter_edit(self) ==
    update_text_cursor(
        [self EXCEPT !.mode =
            IF @ = "ViewingPopup" THEN "EditingPopup"
            ELSE IF self.cursor.col = 3 THEN "EditingPopup" ELSE "Editing"])

\* `self.entries.len() - 1` overflows on a zero-entry list, as in next_row.
\* exit_edit that also moves the cursor onto the row it appends.
exit_edit_to_new_row(self, env) ==
    LET s == [self EXCEPT !.mode = "Navigation"]
    IN  IF Len(s.entries) = 0
        THEN IF env.overflow_checks THEN Panic(s) ELSE auto_save(s, env)
        ELSE IF s.cursor.row = Len(s.entries) - 1
                /\ is_complete(At(s.entries, s.cursor.row))
        THEN auto_save([s EXCEPT !.entries = Append(@, TimeEntry_new),
                                 !.cursor = [row |-> Len(s.entries), col |-> 1]], env)
        ELSE auto_save(s, env)

exit_edit(self, env) ==
    LET s == [self EXCEPT !.mode = "Navigation"]
    IN  IF Len(s.entries) = 0
        THEN IF env.overflow_checks THEN Panic(s) ELSE auto_save(s, env)
        ELSE IF s.cursor.row = Len(s.entries) - 1
                /\ is_complete(At(s.entries, s.cursor.row))
        THEN auto_save([s EXCEPT !.entries = Append(@, TimeEntry_new)], env)
        ELSE auto_save(s, env)

\* insert_char without the auto_save after the insertion.
insert_char_unsaved(self, c, env) ==
    IF self.cursor.row >= Len(self.entries) \/ self.cursor.col \notin 1..5
    THEN self
    ELSE LET f == FieldName(self.cursor.col)
             field == At(self.entries, self.cursor.row)[f]
         IN  IF self.text_cursor <= Len(field)
             THEN IF insert_panics(field, self.text_cursor)
                  THEN Panic(self)
                  ELSE [self EXCEPT
                          !.entries[self.cursor.row + 1][f] =
                              String_insert(field, self.text_cursor, c),
                          !.text_cursor = @ + 1,
                          !.edits = @ + 1]
             ELSE self

insert_char(self, c, env) ==
    IF self.cursor.row >= Len(self.entries) \/ self.cursor.col \notin 1..5
    THEN self
    ELSE LET f == FieldName(self.cursor.col)
             field == At(self.entries, self.cursor.row)[f]
         IN  IF self.text_cursor <= Len(field)
             THEN IF insert_panics(field, self.text_cursor)
                  THEN Panic(self)
                  ELSE auto_save(
                         [self EXCEPT
                            !.entries[self.cursor.row + 1][f] =
                                String_insert(field, self.text_cursor, c),
                            !.text_cursor = @ + 1,
                            !.edits = @ + 1], env)
             ELSE self

delete_char(self, env) ==
    IF self.cursor.row >= Len(self.entries) \/ self.text_cursor = 0
       \/ self.cursor.col \notin 1..5
    THEN self
    ELSE LET f == FieldName(self.cursor.col)
             field == At(self.entries, self.cursor.row)[f]
         IN  IF self.text_cursor > 0 /\ self.text_cursor <= Len(field)
             THEN IF remove_panics(field, self.text_cursor - 1)
                  THEN Panic(self)
                  ELSE auto_save(
                         [self EXCEPT
                            !.entries[self.cursor.row + 1][f] =
                                String_remove(field, self.text_cursor - 1),
                            !.text_cursor = @ - 1,
                            !.edits = @ + 1], env)
             ELSE self

\* export_csv(...)?; self.save_entries() -- the CSV file itself is not kept.
export(self, env) ==
    IF env.export # "ok" THEN self ELSE save_entries(self, env)

\* clear_entries without the cursor reset.
clear_entries_keeping_cursor(self, env) ==
    save_entries([self EXCEPT !.entries = <<TimeEntry_new>>], env)

clear_entries(self, env) ==
    save_entries([self EXCEPT !.entries = <<TimeEntry_new>>, !.cursor = Cursor_new], env)

\* Vec::remove(index): the elements after index shift left.
Vec_remove(v, index) == SubSeq(v, 1, index) \o SubSeq(v, index + 2, Len(v))

\* delete_current_entry without the clamp of cursor.row.
delete_current_entry_unclamped(self, env) ==
    IF Len(self.entries) = 0
    THEN Panic(self)
    ELSE IF Len(self.entries) <= 1
    THEN save_entries(update_mode_for_column(
            [self EXCEPT !.entries[1] = TimeEntry_new, !.cursor = Cursor_new]), env)
    ELSE IF self.cursor.row >= Len(self.entries)
    THEN Panic(self)
    ELSE save_entries(update_mode_for_column(
            [self EXCEPT !.entries = Vec_remove(self.entries, self.cursor.row),
                         !.cursor = [row |-> self.cursor.row, col |-> 1]]), env)

delete_current_entry(self, env) ==
    IF Len(self.entries) = 0
    THEN Panic(self)   \* entries[0]: index out of bounds
    ELSE IF Len(self.entries) <= 1
    THEN save_entries(update_mode_for_column(
            [self EXCEPT !.entries[1] = TimeEntry_new, !.cursor = Cursor_new]), env)
    ELSE IF self.cursor.row >= Len(self.entries)
    THEN Panic(self)   \* Vec::remove: index out of bounds
    ELSE LET es == Vec_remove(self.entries, self.cursor.row)
             row == IF self.cursor.row >= Len(es) THEN Len(es) - 1 ELSE self.cursor.row
         IN  save_entries(update_mode_for_column(
                [self EXCEPT !.entries = es, !.cursor = [row |-> row, col |-> 1]]), env)

\* The status messages are kept by their format string ("{}" is the display
\* name of the column).
copy_current_field(self, env) ==
    IF self.cursor.row >= Len(self.entries)
    THEN show_message(self, <<"No entry to copy from">>)
    ELSE IF self.cursor.col \notin 1..5
    THEN show_message(self, <<"Invalid field">>)
    ELSE IF At(self.entries, self.cursor.row)[FieldName(self.cursor.col)] = <<>>
    THEN show_message(self, <<"{} is empty">>)
    ELSE CASE env.clip = "ok" ->
                show_message(self, <<"{} copied to clipboard!">>)
           [] env.clip = "set_failed" ->
                show_message(self, <<"Failed to copy to clipboard">>)
           [] OTHER ->
                show_message(self, <<"Could not access clipboard">>)

\* ------------------------------------------------------------------ handle_key

\* Left / Right / Home / End, identical in Editing and EditingPopup.
text_left(self) == IF self.text_cursor > 0 THEN [self EXCEPT !.text_cursor = @ - 1] ELSE self
\* Right without the comparison with the field length.
text_right_unbounded(self) == [self EXCEPT !.text_cursor = @ + 1]
text_right(self) ==
    IF self.text_cursor < get_current_field_length(self)
    THEN [self EXCEPT !.text_cursor = @ + 1]
    ELSE self
text_home(self) == [self EXCEPT !.text_cursor = 0]
text_end(self) == [self EXCEPT !.text_cursor = get_current_field_length(self)]

key_Navigation(self, k, env) ==
    LET clr == [self EXCEPT !.pending_delete = FALSE]
    IN  CASE k = "q" -> [self EXCEPT !.should_quit = TRUE]
          [] k = "^s" -> export(self, env)
          [] k = "^x" -> [self EXCEPT !.mode = "ConfirmClearEntries"]
          [] k = "^y" -> copy_current_field(self, env)
          [] k = "d" ->
                IF self.pending_delete
                THEN [self EXCEPT !.mode = "ConfirmDeleteEntry", !.pending_delete = FALSE]
                ELSE [self EXCEPT !.pending_delete = TRUE]
          [] k = "i" -> enter_edit(clr)
          [] k = "?" -> [clr EXCEPT !.mode = "Help"]
          [] k = "Tab" -> next_col(clr, env)
          [] k = "BackTab" -> prev_col(clr)
          [] k = "Up" -> prev_row(clr)
          [] k = "Down" -> next_row(clr, env)
          [] k = "Left" -> prev_col(clr)
          [] k = "Right" -> next_col(clr, env)
          [] OTHER -> clr

\* The Editing arm with Enter leaving edit mode before the column step.
key_Editing_enter_leaves(self, k, env) ==
    CASE k = "Esc" -> exit_edit(self, env)
      [] k = "Tab" -> next_col(self, env)
      [] k = "BackTab" -> prev_col(self)
      [] k = "Enter" -> next_col([self EXCEPT !.mode = "Navigation"], env)
      [] k = "Left" -> text_left(self)
      [] k = "Right" -> text_right(self)
      [] k = "Home" -> text_home(self)
      [] k = "End" -> text_end(self)
      [] IsChar(k) -> insert_char(self, KeyChar(k), env)
      [] k = "Backspace" -> delete_char(self, env)
      [] OTHER -> self

key_Editing(self, k, env) ==
    CASE k = "Esc" -> exit_edit(self, env)
      [] k = "Tab" -> next_col(self, env)
      [] k = "BackTab" -> prev_col(self)
      [] k = "Enter" -> next_col(self, env)
      [] k = "Left" -> text_left(self)
      [] k = "Right" -> text_right(self)
      [] k = "Home" -> text_home(self)
      [] k = "End" -> text_end(self)
      [] IsChar(k) -> insert_char(self, KeyChar(k), env)
      [] k = "Backspace" -> delete_char(self, env)
      [] OTHER -> self

\* The ViewingPopup arm with Up scrolling without the clamp at 0.
key_ViewingPopup_up_unclamped(self, k, env) ==
    CASE k = "i" -> enter_edit(self)
      [] k = "^y" -> copy_current_field(self, env)
      [] k = "Tab" -> next_col(self, env)
      [] k = "BackTab" -> prev_col(self)
      [] k = "Up" -> [self EXCEPT !.popup_scroll = @ - 1]
      [] k = "Down" -> [self EXCEPT !.popup_scroll = @ + 1]
      [] k = "Left" -> prev_col(self)
      [] k = "Right" -> next_col(self, env)
      [] OTHER -> self

key_ViewingPopup(self, k, env) ==
    CASE k = "i" -> enter_edit(self)
      [] k = "^y" -> copy_current_field(self, env)
      [] k = "Tab" -> next_col(self, env)
      [] k = "BackTab" -> prev_col(self)
      [] k = "Up" -> IF self.popup_scroll > 0 THEN [self EXCEPT !.popup_scroll = @ - 1] ELSE self
      [] k = "Down" -> [self EXCEPT !.popup_scroll = @ + 1]
      [] k = "Left" -> prev_col(self)
      [] k = "Right" -> next_col(self, env)
      [] OTHER -> self

\* The EditingPopup arm with Esc handled as in Editing (exit_edit).
key_EditingPopup_exit_edit(self, k, env) ==
    CASE k = "Esc" -> exit_edit(self, env)
      [] k = "Tab" ->
            LET s == next_col(self, env) IN [s EXCEPT !.popup_scroll = 0]
      [] k = "BackTab" ->
            LET s == prev_col(self) IN [s EXCEPT !.popup_scroll = 0]
      [] k = "^y" -> copy_current_field(self, env)
      [] k = "Enter" -> insert_char(self, "\n", env)
      [] k = "Up" -> move_cursor_up_in_text(self)
      [] k = "Down" -> move_cursor_down_in_text(self)
      [] k = "Left" -> text_left(self)
      [] k = "Right" -> text_right(self)
      [] k = "Home" -> text_home(self)
      [] k = "End" -> text_end(self)
      [] IsChar(k) /\ k # "^y" -> insert_char(self, KeyChar(k), env)
      [] k = "Backspace" -> delete_char(self, env)
      [] OTHER -> self

key_EditingPopup(self, k, env) ==
    CASE k = "Esc" -> [self EXCEPT !.mode = "ViewingPopup"]
      [] k = "Tab" ->
            LET s == next_col(self, env) IN [s EXCEPT !.popup_scroll = 0]
      [] k = "BackTab" ->
            LET s == prev_col(self) IN [s EXCEPT !.popup_scroll = 0]
      [] k = "^y" -> copy_current_field(self, env)
      [] k = "Enter" -> insert_char(self, "\n", env)
      [] k = "Up" -> move_cursor_up_in_text(self)
      [] k = "Down" -> move_cursor_down_in_text(self)
      [] k = "Left" -> text_left(self)
      [] k = "Right" -> text_right(self)
      [] k = "Home" -> text_home(self)
      [] k = "End" -> text_end(self)
      [] IsChar(k) /\ k # "^y" -> insert_char(self, KeyChar(k), env)
      [] k = "Backspace" -> delete_char(self, env)
      [] OTHER -> self

key_Help(self) == [self EXCEPT !.mode = "Navigation"]

key_ConfirmDeleteEntry(self, k, env) ==
    CASE k \in {"y", "Y"} ->
            LET s == delete_current_entry(self, env)
            IN  IF s.panicked THEN s ELSE [s EXCEPT !.mode = "Navigation"]
      [] k \in {"n", "N", "Esc"} -> [self EXCEPT !.mode = "Navigation"]
      [] OTHER -> self

\* The ConfirmClearEntries arm with every key but y/Y cancelling.
key_ConfirmClearEntries_any_cancels(self, k, env) ==
    CASE k \in {"y", "Y"} ->
            LET s == clear_entries(self, env) IN [s EXCEPT !.mode = "Navigation"]
      [] OTHER -> [self EXCEPT !.mode = "Navigation"]

key_ConfirmClearEntries(self, k, env) ==
    CASE k \in {"y", "Y"} ->
            LET s == clear_entries(self, env) IN [s EXCEPT !.mode = "Navigation"]
      [] k \in {"n", "N", "Esc"} -> [self EXCEPT !.mode = "Navigation"]
      [] OTHER -> self

handle_key(self, k, env) ==
    CASE self.mode = "Navigation" -> key_Navigation(self, k, env)
      [] self.mode = "Editing" -> key_Editing(self, k, env)
      [] self.mode = "ViewingPopup" -> key_ViewingPopup(self, k, env)
      [] self.mode = "EditingPopup" -> key_EditingPopup(self, k, env)
      [] self.mode = "Help" -> key_Help(self)
      [] self.mode = "ConfirmDeleteEntry" -> key_ConfirmDeleteEntry(self, k, env)
      [] self.mode = "ConfirmClearEntries" -> key_ConfirmClearEntries(self, k, env)

\* The arm of handle_key's match that takes key k in mode m ("_" is the
\* catch-all arm; Help has a single arm).
Arm(m, k) ==
    CASE m = "Navigation" ->
            IF k \in {"q", "^s", "^x", "^y", "d", "i", "?", "Tab", "BackTab",
                      "Up", "Down", "Left", "Right"} THEN k ELSE "_"
      [] m = "Editing" ->
            IF k \in {"Esc", "Tab", "BackTab", "Enter", "Left", "Right", "Home",
                      "End", "Backspace"} THEN k
            ELSE IF IsChar(k) THEN "Char" ELSE "_"
      [] m = "ViewingPopup" ->
            IF k \in {"i", "^y", "Tab", "BackTab", "Up", "Down", "Left", "Right"}
            THEN k ELSE "_"
      [] m = "EditingPopup" ->
            IF k \in {"Esc", "Tab", "BackTab", "^y", "Enter", "Up", "Down", "Left",
                      "Right", "Home", "End", "Backspace"} THEN k
            ELSE IF IsChar(k) THEN "Char" ELSE "_"
      [] m = "Help" -> "_"
      [] OTHER ->
            IF k \in {"y", "Y"} THEN "y"
            ELSE IF k \in {"n", "N", "Esc"} THEN "n" ELSE "_"

\* ------------------------------------------------------------------ state

VARIABLES
    entries,          \* App::entries
    cursor,           \* App::cursor
    mode,             \* App::mode
    should_quit,      \* App::should_quit
    popup_scroll,     \* App::popup_scroll
    text_cursor,      \* App::text_cursor
    pending_delete,   \* App::pending_delete
    status_message,   \* App::status_message (<<>> is None)
    message_timer,    \* App::message_timer ("None" or "Some")
    saves,            \* the save_entries calls of the last step, in order
    last_event,       \* the last step: its kind, the mode it found, the arm taken
    prev_nav_d,       \* the most recent key event was `d` handled in Navigation
    pc,               \* "running", "done" (run returned) or "panicked"
    edits,            \* successful insertions/deletions so far
    primary,          \* what entries.json holds: File(list) or Unreadable
    backups,          \* the entries_backup_*.json files of ~/.slothtime
    sv,               \* the save_entries call in progress, and the clock
    task_time,        \* what calculate_task_time returned for the first entry
    terminal,         \* the terminal: raw mode on, alternate screen entered
    timers            \* seconds since the recorded save and since the message was shown

vars == <<entries, cursor, mode, should_quit, popup_scroll, text_cursor,
          pending_delete, status_message, message_timer, saves,
          last_event, prev_nav_d, pc, edits, primary, backups, sv, task_time,
          terminal, timers>>

\* What a key event or a loop iteration of the session leaves alone: the
\* backup files and the steps of a save (SpecSave), the task time (SpecTime),
\* the terminal set up by main (SpecMain) and the clock readings (SpecTimers).
aux == <<backups, sv, task_time, terminal, timers>>

\* The App value of the current state, with an empty log for the next step.
App ==
    [entries |-> entries, cursor |-> cursor, mode |-> mode,
     should_quit |-> should_quit, popup_scroll |-> popup_scroll,
     text_cursor |-> text_cursor, pending_delete |-> pending_delete,
     status_message |-> status_message, message_timer |-> message_timer,
     saves |-> <<>>, edits |-> edits, panicked |-> FALSE,
     shown |-> FALSE, stamped |-> FALSE]

\* The step leaves the App value s.
Becomes(s) ==
    /\ entries' = s.entries
    /\ cursor' = s.cursor
    /\ mode' = s.mode
    /\ should_quit' = s.should_quit
    /\ popup_scroll' = s.popup_scroll
    /\ text_cursor' = s.text_cursor
    /\ pending_delete' = s.pending_delete
    /\ status_message' = s.status_message
    /\ message_timer' = s.message_timer
    /\ saves' = s.saves
    /\ edits' = s.edits

\* entries.json after the save_entries calls of log, in order, when it held p
\* before: the list of the last call that succeeded (`fs::write(&file,
\* content)?` is the last statement of save_entries), else p.
Stored(p, log) ==
    LET ok == {i \in 1..Len(log) : log[i].result = "ok"}
    IN  IF ok = {} THEN p
        ELSE File(log[CHOOSE i \in ok : \A j \in ok : j <= i].list)

\* The exploration stays within the bounds.
WithinBounds(s) ==
    /\ s.edits <= MaxEdits
    /\ s.edits > edits => Len(entries) <= MaxEditRows
    /\ s.popup_scroll <= MaxScroll
    /\ s.cursor.row <= Len(s.entries) + MaxWrapRow

\* ------------------------------------------------------------------ startup

Str(c) == <<c>>
\* A complete row whose text field has two lines, the second a two-byte letter.
RowD == [task_number |-> Str("d"), work_code |-> Str("d"),
         time_entry |-> <<"d", "\n", "C3", "A9">>, start_time |-> Str("d"),
         end_time |-> Str("d")]
\* A row with one field set.
RowA == [task_number |-> Str("a"), work_code |-> <<>>, time_entry |-> <<>>,
         start_time |-> <<>>, end_time |-> <<>>]
\* A row that one typed character completes.
RowB == [task_number |-> Str("b"), work_code |-> Str("b"),
         time_entry |-> Str("b"), start_time |-> Str("b"), end_time |-> <<>>]

\* The lists entries.json may hold at startup (serde accepts any JSON array of
\* entries, the empty array included).
LoadedLists == {<<>>, <<RowD, RowA, RowB>>}

\* App::new: load_entries().unwrap_or_else(|_| vec![TimeEntry::new()]), the
\* field initialisers, then update_mode_for_column().
App_new(loaded) ==
    update_mode_for_column(
        [entries |-> IF loaded.readable THEN loaded.list ELSE <<TimeEntry_new>>,
         cursor |-> Cursor_new, mode |-> "Navigation", should_quit |-> FALSE,
         popup_scroll |-> 0, text_cursor |-> 0, pending_delete |-> FALSE,
         status_message |-> <<>>, message_timer |-> "None",
         saves |-> <<>>, edits |-> 0, panicked |-> FALSE,
         shown |-> FALSE, stamped |-> FALSE])

\* The App that App::new leaves when load_entries returns one of loads.
InitApp(loads) ==
    \E loaded \in loads :
        LET s == App_new(loaded)
        IN  /\ entries = s.entries
            /\ cursor = s.cursor
            /\ mode = s.mode
            /\ should_quit = s.should_quit
            /\ popup_scroll = s.popup_scroll
            /\ text_cursor = s.text_cursor
            /\ pending_delete = s.pending_delete
            /\ status_message = s.status_message
            /\ message_timer = s.message_timer
            /\ saves = s.saves
            /\ edits = s.edits
            /\ last_event = [kind |-> "new", mode |-> "", arm |-> ""]
            /\ prev_nav_d = FALSE
            /\ pc = "running"
            /\ primary = loaded

\* The terminal as main hands it to App::run: raw mode, alternate screen.
SetUp == [raw_mode |-> TRUE, alternate_screen |-> TRUE]

\* calculate_task_time has not been called.
NotCalled == [kind |-> "not_called", text |-> <<>>]

\* The clock readings when App::new returns: last_save_time is now, no
\* message is shown (msg_age -1), the first iteration of run is about to start.
Started == [save_age |-> 0, msg_age |-> -1, phase |-> "head"]

\* No save_entries call is in progress.
Idle(now) == [pc |-> "idle", now |-> now, ops |-> <<>>]

\* The state that App::new leaves when load_entries returns one of loads.  In
\* the sessions save_entries is one call with a result; its steps on the file
\* system are those of SpecSave below.
InitFrom(loads) ==
    /\ InitApp(loads)
    /\ backups = {}
    /\ sv = Idle(0)
    /\ task_time = NotCalled
    /\ terminal = SetUp
    /\ timers = Started

Init == InitFrom({File(l) : l \in LoadedLists} \cup {Unreadable})

\* ------------------------------------------------------------------ actions

\* The arms of handle_key that can reach save_entries.
MaySave(m, k) ==
    \/ m \in {"Editing", "EditingPopup", "ConfirmDeleteEntry", "ConfirmClearEntries"}
    \/ (m = "Navigation" /\ k = "^s")

\* One key press read by App::run and handled by handle_key.
HandleKey(k, co) ==
    /\ pc = "running"
    /\ ~should_quit
    /\ prev_nav_d' = (mode = "Navigation" /\ k = "d")
    /\ UNCHANGED aux
    /\ \E env \in EnvFor(co, MaySave(mode, k), k, entries = <<>>) :
          LET s == handle_key(App, k, env)
          IN  IF s.panicked
              THEN /\ pc' = "panicked"
                   /\ last_event' = [kind |-> "panic", mode |-> mode, arm |-> Arm(mode, k)]
                   /\ UNCHANGED <<entries, cursor, mode, should_quit, popup_scroll,
                                  text_cursor, pending_delete, status_message,
                                  message_timer, saves, edits, primary>>
              ELSE /\ WithinBounds(s)
                   /\ Becomes(s)
                   /\ primary' = Stored(primary, s.saves)
                   /\ last_event' = [kind |-> "key", mode |-> mode, arm |-> Arm(mode, k)]
                   /\ pc' = "running"

update_message_timer(self, elapsed) ==
    IF self.message_timer = "Some" /\ elapsed
    THEN [self EXCEPT !.status_message = <<>>, !.message_timer = "None"]
    ELSE self

\* check_auto_save recording the time of the save also when the save failed.
check_auto_save_always_stamped(self, due, env) ==
    IF due
    THEN LET s == save_entries(self, env)
         IN  IF env.save # "ok"
             THEN [show_message(s, <<"Auto-save failed">>) EXCEPT !.stamped = TRUE]
             ELSE [s EXCEPT !.stamped = TRUE]
    ELSE self

check_auto_save(self, due, env) ==
    IF due
    THEN LET s == save_entries(self, env)
         IN  IF env.save # "ok"
             THEN show_message(s, <<"Auto-save failed">>)
             ELSE [s EXCEPT !.stamped = TRUE]
    ELSE self

\* One iteration of App::run in which no key press is read: the two timer
\* checks (whether 3 s, resp. 30 s, have elapsed is the clock's choice), the
\* redraw, and a poll that times out.
Tick(co) ==
    /\ pc = "running"
    /\ ~should_quit
    /\ \E elapsed \in (IF message_timer = "Some" THEN BOOLEAN ELSE {FALSE}),
          due \in BOOLEAN :
        \E env \in EnvFor(co, due, "", FALSE) :
          LET s == check_auto_save(update_message_timer(App, elapsed), due, env)
          IN  /\ WithinBounds(s)
              /\ Becomes(s)
              /\ primary' = Stored(primary, s.saves)
    /\ last_event' = [kind |-> "tick", mode |-> mode, arm |-> ""]
    /\ UNCHANGED <<prev_nav_d, aux>>
    /\ pc' = "running"

\* The quitting iteration of a loop that breaks only once the save succeeded.
Quit_until_saved(co) ==
    /\ pc = "running"
    /\ should_quit
    /\ \E elapsed \in (IF message_timer = "Some" THEN BOOLEAN ELSE {FALSE}),
          due \in BOOLEAN :
        /\ \E env \in EnvFor(co, due, "", FALSE), final \in EnvFor(co, TRUE, "", FALSE) :
              LET h == check_auto_save(update_message_timer(App, elapsed), due, env)
                  s == save_entries(h, final)
              IN  /\ WithinBounds(s)
                  /\ Becomes(s)
                  /\ primary' = Stored(primary, s.saves)
        /\ last_event' = [kind |-> "quit", mode |-> mode,
                          arm |-> IF due THEN "due" ELSE ""]
    /\ UNCHANGED <<prev_nav_d, aux>>
    /\ pc' = IF saves'[Len(saves')].result = "ok" THEN "done" ELSE "running"

\* The iteration of App::run that finds should_quit set: the two timer checks
\* and the redraw as in every iteration, then
\* `if self.should_quit { self.save_entries().ok(); break; }`.  The arm of the
\* event records whether the interval auto-save was due in this iteration.
Quit(co) ==
    /\ pc = "running"
    /\ should_quit
    /\ \E elapsed \in (IF message_timer = "Some" THEN BOOLEAN ELSE {FALSE}),
          due \in BOOLEAN :
        /\ \E env \in EnvFor(co, due, "", FALSE), final \in EnvFor(co, TRUE, "", FALSE) :
              LET h == check_auto_save(update_message_timer(App, elapsed), due, env)
                  s == save_entries(h, final)
              IN  /\ WithinBounds(s)
                  /\ Becomes(s)
                  /\ primary' = Stored(primary, s.saves)
        /\ last_event' = [kind |-> "quit", mode |-> mode,
                          arm |-> IF due THEN "due" ELSE ""]
    /\ UNCHANGED <<prev_nav_d, aux>>
    /\ pc' = "done"

\* A session with nominal collaborators.
Next ==
    \/ \E k \in KeysFor(mode) : HandleKey(k, Nominal)
    \/ Tick(Nominal)
    \/ Quit(Nominal)

Spec == Init /\ [][Next]_vars

\* The sessions with a failing storage start without a readable entries.json
\* (the missing or unwritable ~/.slothtime that makes the saves fail).
InitFaults == InitFrom({Unreadable})

\* A session whose storage may fail at any save_entries call.
NextFaults ==
    \/ \E k \in KeysFor(mode) : HandleKey(k, FaultyStorage)
    \/ Tick(FaultyStorage)
    \/ Quit(FaultyStorage)

SpecFaults == InitFaults /\ [][NextFaults]_vars

\* ------------------------------------------------------------------ save_entries

\* `backup_files.iter().skip(10)`: the number of backups the sweep keeps.
KeptBackups == 10
\* Seconds of wall-clock time explored (a backup's name is its timestamp).
MaxClock == 2

\* A backup file: its timestamp name, its modification time, its content.
Backup(name, mtime, content) == [name |-> name, mtime |-> mtime, content |-> content]

\* n backups left by earlier sessions, modified in pairs at the same instant.
Old(n) == {Backup(0 - i, 0 - ((i + 1) \div 2), <<>>) : i \in 1..n}

\* The backup files ~/.slothtime may hold when a session starts.
InitialDirs == {{}, Old(KeptBackups)}

\* The lists the sessions of SpecSave hold in memory.
SaveLists == {<<TimeEntry_new>>, <<RowA>>}

\* The files the sweep removes: the directory listing sorted by modification
\* time, newest first, less its first KeptBackups (files modified at the same
\* instant come in the order read_dir happened to return them).
Victims_any(files) ==
    {V \in SUBSET files :
        Cardinality(V) = IF Cardinality(files) > KeptBackups
                         THEN Cardinality(files) - KeptBackups ELSE 0}

Victims(files) ==
    {V \in SUBSET files :
        /\ Cardinality(V) = IF Cardinality(files) > KeptBackups
                            THEN Cardinality(files) - KeptBackups ELSE 0
        /\ \A v \in V, k \in files \ V : v.mtime <= k.mtime}

\* The steps of save_entries touch the file system only.
RestUnchanged ==
    UNCHANGED <<cursor, mode, should_quit, popup_scroll, text_cursor,
                pending_delete, status_message, message_timer, saves,
                last_event, prev_nav_d, pc, edits, task_time, terminal, timers>>

\* create_backup, first half: fs::write of entries_backup_<timestamp>.json
\* with the serialised list; on Err save_entries returns at once.
create_backup(ok) ==
    /\ sv.pc = "idle"
    /\ IF ok
       THEN /\ backups' = {b \in backups : b.name # sv.now}
                              \cup {Backup(sv.now, sv.now, entries)}
            /\ sv' = [sv EXCEPT !.pc = "cleanup", !.ops = <<"backup_ok">>]
       ELSE /\ sv' = [sv EXCEPT !.ops = <<"backup_err">>]
            /\ UNCHANGED backups
    /\ UNCHANGED <<entries, primary>>
    /\ RestUnchanged

\* cleanup_old_backups: read_dir (on Err save_entries returns), then
\* `let _ = fs::remove_file(..)` for each file past the first KeptBackups;
\* the removals in failed did not succeed.
cleanup_old_backups(listed) ==
    /\ sv.pc = "cleanup"
    /\ IF listed
       THEN \E V \in Victims(backups) : \E failed \in SUBSET V :
               /\ backups' = backups \ (V \ failed)
               /\ sv' = [sv EXCEPT !.pc = "write",
                                   !.ops = Append(@, IF failed = {}
                                                     THEN "sweep_complete"
                                                     ELSE "sweep_partial")]
       ELSE /\ sv' = [sv EXCEPT !.pc = "idle", !.ops = Append(@, "readdir_err")]
            /\ UNCHANGED backups
    /\ UNCHANGED <<entries, primary>>
    /\ RestUnchanged

\* `fs::write(&file, content)?` on entries.json, the last step of save_entries.
write_primary(ok) ==
    /\ sv.pc = "write"
    /\ primary' = IF ok THEN File(entries) ELSE primary
    /\ sv' = [sv EXCEPT !.pc = "idle",
                        !.ops = Append(@, IF ok THEN "write_ok" ELSE "write_err")]
    /\ UNCHANGED <<entries, backups>>
    /\ RestUnchanged

\* Between two save_entries calls: a second passes.
Second ==
    /\ sv.pc = "idle"
    /\ sv.now < MaxClock
    /\ sv' = [sv EXCEPT !.now = @ + 1]
    /\ UNCHANGED <<entries, primary, backups>>
    /\ RestUnchanged

\* Between two save_entries calls: the list in memory changes.
Mutate ==
    /\ sv.pc = "idle"
    /\ \E l \in SaveLists \ {entries} : entries' = l
    /\ UNCHANGED <<primary, backups, sv>>
    /\ RestUnchanged

InitSave ==
    /\ InitApp({File(l) : l \in SaveLists} \cup {Unreadable})
    /\ backups \in InitialDirs
    /\ sv = Idle(0)
    /\ task_time = NotCalled
    /\ terminal = SetUp
    /\ timers = Started

NextSave ==
    \/ \E ok \in BOOLEAN : create_backup(ok)
    \/ \E listed \in BOOLEAN : cleanup_old_backups(listed)
    \/ \E ok \in BOOLEAN : write_primary(ok)
    \/ Second
    \/ Mutate

\* The persistence attempts of a session, step by step on the file system.
SpecSave == InitSave /\ [][NextSave]_vars

\* ------------------------------------------------------------------ task time

DigitChars == <<"0", "1", "2", "3", "4", "5", "6", "7", "8", "9">>
Digits == {DigitChars[i] : i \in 1..10}
DigitVal(c) == (CHOOSE i \in 1..10 : DigitChars[i] = c) - 1

\* The decimal value of a string of digits.
RECURSIVE Decimal(_)
Decimal(d) ==
    IF d = <<>> THEN 0
    ELSE 10 * Decimal(SubSeq(d, 1, Len(d) - 1)) + DigitVal(d[Len(d)])

\* str::parse::<u32>().ok(): an optional "+" and then one or more ASCII
\* digits; -1 stands for None.
parse_u32(b) ==
    LET d == IF b # <<>> /\ b[1] = "+" THEN Tail(b) ELSE b
    IN  IF d # <<>> /\ \A i \in 1..Len(d) : d[i] \in Digits THEN Decimal(d) ELSE -1

None == [kind |-> "none", text |-> <<>>]
Some(text) == [kind |-> "some", text |-> text]
\* The call panicked.
Panicked == [kind |-> "panic", text |-> <<>>]

\* time_str.replace(":", "")
strip_colons(s) == SelectSeq(s, LAMBDA c : c # ":")

\* parse_time: minutes since midnight, -1 for None, -2 for a panic.  The
\* slices [0..2] and [2..4] of the four bytes panic when byte 2 is not a
\* character boundary.
parse_time(time_str) ==
    LET t == strip_colons(time_str)
    IN  IF Len(t) = 4
        THEN IF ~is_char_boundary(t, 2)
             THEN -2
             ELSE LET hour == parse_u32(SubSeq(t, 1, 2))
                      min == parse_u32(SubSeq(t, 3, 4))
                  IN  IF hour = -1 \/ min = -1 THEN -1
                      ELSE IF hour < 24 /\ min < 60   \* NaiveTime::from_hms_opt
                      THEN hour * 60 + min
                      ELSE -1
        ELSE -1

\* format!("{:02}", n)
Fmt02(n) ==
    IF n < 10 THEN <<"0", DigitChars[n + 1]>>
    ELSE <<DigitChars[(n \div 10) + 1], DigitChars[(n % 10) + 1]>>

calculate_task_time(e) ==
    IF e.start_time = <<>> \/ e.end_time = <<>>
    THEN None
    ELSE LET start == parse_time(e.start_time)
         IN  IF start = -2 THEN Panicked
             ELSE IF start = -1 THEN None
             ELSE LET end == parse_time(e.end_time)
                  IN  IF end = -2 THEN Panicked
                      ELSE IF end = -1 THEN None
                      ELSE IF end < start THEN None
                      ELSE Some(Fmt02((end - start) \div 60) \o <<":">>
                                    \o Fmt02((end - start) % 60))

\* The start and end strings tried: well-formed times with and without the
\* colon, times out of range, other shapes, and strings of four bytes that
\* are not four digits.
TimeStrings ==
    {<<>>,
     <<"0", "9", ":", "0", "0">>, <<"1", "7", ":", "3", "0">>,
     <<"1", "7", ":", "0", "0">>, <<"0", "9", "0", "0">>,
     <<"2", "3", ":", "5", "9">>, <<"2", "4", ":", "0", "0">>,
     <<"1", "2", ":", "6", "0">>, <<"9", ":", "0", "0">>,
     <<"a", "b", "c">>, <<"+", "9", "3", "0">>, <<"1", "C3", "A9", "2">>}

\* An entry with the given start and end strings.
TimeRow(a, b) == [TimeEntry_new EXCEPT !.start_time = a, !.end_time = b]

InitTime ==
    /\ InitApp({File(<<TimeRow(a, b)>>) : a \in TimeStrings, b \in TimeStrings})
    /\ backups = {}
    /\ sv = Idle(0)
    /\ task_time = NotCalled
    /\ terminal = SetUp
    /\ timers = Started

\* export_csv computes the task time of the entry.
CalculateTaskTime ==
    /\ pc = "running"
    /\ task_time = NotCalled
    /\ task_time' = calculate_task_time(entries[1])
    /\ pc' = IF task_time'.kind = "panic" THEN "panicked" ELSE pc
    /\ UNCHANGED <<entries, cursor, mode, should_quit, popup_scroll, text_cursor,
                   pending_delete, status_message, message_timer, saves,
                   last_event, prev_nav_d, edits, primary, backups, sv, terminal,
                   timers>>

NextTime == CalculateTaskTime

\* calculate_task_time applied to every pair of TimeStrings.
SpecTime == InitTime /\ [][NextTime]_vars

\* ------------------------------------------------------------------ main

\* The variables hold the App value s.
Holds(s) ==
    /\ entries = s.entries
    /\ cursor = s.cursor
    /\ mode = s.mode
    /\ should_quit = s.should_quit
    /\ popup_scroll = s.popup_scroll
    /\ text_cursor = s.text_cursor
    /\ pending_delete = s.pending_delete
    /\ status_message = s.status_message
    /\ message_timer = s.message_timer
    /\ saves = s.saves
    /\ edits = s.edits

\* A step of main outside App::new and App::run touches the terminal only.
AppUnchanged ==
    UNCHANGED <<entries, cursor, mode, should_quit, popup_scroll, text_cursor,
                pending_delete, status_message, message_timer, saves,
                last_event, prev_nav_d, edits, primary, backups, sv, task_time,
                timers>>

\* Before main runs: a terminal in its normal state, no App yet (the App
\* variables hold the value every App starts from), no readable entries.json.
InitMain ==
    /\ Holds(App_new(Unreadable))
    /\ last_event = [kind |-> "new", mode |-> "", arm |-> ""]
    /\ prev_nav_d = FALSE
    /\ primary = Unreadable
    /\ backups = {}
    /\ sv = Idle(0)
    /\ task_time = NotCalled
    /\ terminal = [raw_mode |-> FALSE, alternate_screen |-> FALSE]
    /\ timers = Started
    /\ pc = "main"

\* `enable_raw_mode()?;`
main_enable_raw_mode(ok) ==
    /\ pc = "main"
    /\ IF ok
       THEN terminal' = [terminal EXCEPT !.raw_mode = TRUE] /\ pc' = "raw_mode"
       ELSE UNCHANGED terminal /\ pc' = "startup_failed"
    /\ AppUnchanged

\* `execute!(stdout, EnterAlternateScreen)?;`
main_EnterAlternateScreen(ok) ==
    /\ pc = "raw_mode"
    /\ IF ok
       THEN terminal' = [terminal EXCEPT !.alternate_screen = TRUE] /\ pc' = "screen"
       ELSE UNCHANGED terminal /\ pc' = "startup_failed"
    /\ AppUnchanged

\* `let mut terminal = Terminal::new(backend)?;`
main_Terminal_new(ok) ==
    /\ pc = "screen"
    /\ pc' = IF ok THEN "terminal" ELSE "startup_failed"
    /\ UNCHANGED terminal
    /\ AppUnchanged

\* `let mut app = App::new()?;` -- Config::load()? and then the App built
\* from what load_entries returns; main goes on to app.run.
main_App_new(config_ok) ==
    /\ pc = "terminal"
    /\ IF config_ok
       THEN Becomes(App_new(primary)) /\ pc' = "running"
       ELSE /\ UNCHANGED <<entries, cursor, mode, should_quit, popup_scroll,
                           text_cursor, pending_delete, status_message,
                           message_timer, saves, edits>>
            /\ pc' = "startup_failed"
    /\ UNCHANGED <<last_event, prev_nav_d, primary, aux>>

\* `disable_raw_mode()?;` once app.run has returned.
main_disable_raw_mode(ok) ==
    /\ pc = "done"
    /\ IF ok
       THEN terminal' = [terminal EXCEPT !.raw_mode = FALSE] /\ pc' = "cooked"
       ELSE UNCHANGED terminal /\ pc' = "cleanup_failed"
    /\ AppUnchanged

\* `execute!(terminal.backend_mut(), LeaveAlternateScreen)?;` and the return.
main_LeaveAlternateScreen(ok) ==
    /\ pc = "cooked"
    /\ IF ok
       THEN terminal' = [terminal EXCEPT !.alternate_screen = FALSE] /\ pc' = "exited"
       ELSE UNCHANGED terminal /\ pc' = "cleanup_failed"
    /\ AppUnchanged

NextMain ==
    \/ \E ok \in BOOLEAN : main_enable_raw_mode(ok)
    \/ \E ok \in BOOLEAN : main_EnterAlternateScreen(ok)
    \/ \E ok \in BOOLEAN : main_Terminal_new(ok)
    \/ \E ok \in BOOLEAN : main_App_new(ok)
    \/ \E k \in KeysFor(mode) : HandleKey(k, Nominal)
    \/ Tick(Nominal)
    \/ Quit(Nominal)
    \/ \E ok \in BOOLEAN : main_disable_raw_mode(ok)
    \/ \E ok \in BOOLEAN : main_LeaveAlternateScreen(ok)

\* The whole of main: terminal setup, the session, terminal cleanup.
SpecMain == InitMain /\ [][NextMain]_vars

\* ------------------------------------------------------------------ text entry

\* Number of characters of the texts entries.json holds at startup.
MaxTextLen == 3

\* The characters of those texts: a letter, a line break, a two-byte letter.
TextChars == {"a", "\n", "e_acute"}

\* The UTF-8 bytes of a sequence of characters.
RECURSIVE Encode(_)
Encode(cs) == IF cs = <<>> THEN <<>> ELSE Bytes(Head(cs)) \o Encode(Tail(cs))

\* Every text of at most n characters.
TextsUpTo(n) == {Encode(cs) : cs \in UNION {[1..m -> TextChars] : m \in 0..n}}

\* A row whose time_entry field holds text t.
TextRow(t) == [TimeEntry_new EXCEPT !.time_entry = t]

\* App::new on a one-row list whose text field holds any of the texts.
InitText ==
    /\ InitApp({File(<<TextRow(t)>>) : t \in TextsUpTo(MaxTextLen)})
    /\ backups = {}
    /\ sv = Idle(0)
    /\ task_time = NotCalled
    /\ terminal = SetUp
    /\ timers = Started

\* The keys of a session that walks to the text field (Tab, Tab), opens it
\* for editing (i) and then moves, types and deletes in the popup editor.
TextKeysFor(m) ==
    CASE m = "Navigation" -> {"Tab"}
      [] m = "ViewingPopup" -> {"i"}
      [] m = "EditingPopup" ->
            {"Up", "Down", "Left", "Right", "Home", "End", "Enter", "Backspace"}
                \cup TypedKeys
      [] OTHER -> {}

NextText == \E k \in TextKeysFor(mode) : HandleKey(k, Nominal)

\* The popup editor on every text of at most MaxTextLen characters.
SpecText == InitText /\ [][NextText]_vars

\* ------------------------------------------------------------------ timers

\* `auto_save_interval: Duration::from_secs(30)`.
AutoSaveInterval == 30
\* `timer.elapsed().as_secs() >= 3`.
MessageSeconds == 3

\* The clock readings dt seconds later, at the head of the next iteration.
\* The code compares the two ages with their thresholds only, so an age is
\* kept up to its threshold.
Pass(t, dt) ==
    [save_age |-> Min(t.save_age + dt, AutoSaveInterval),
     msg_age |-> IF t.msg_age = -1 THEN -1 ELSE Min(t.msg_age + dt, MessageSeconds),
     phase |-> "head"]

\* The clock readings after a step that left the App value s:
\* `self.last_save_time = Instant::now()` where the step stamped the save,
\* `self.message_timer = Some(Instant::now())` where it showed a message.
Restamp(t, s) ==
    [t EXCEPT !.save_age = IF s.stamped THEN 0 ELSE @,
              !.msg_age = IF s.shown THEN 0
                          ELSE IF s.message_timer = "None" THEN -1 ELSE @]

\* The head of an iteration of App::run: update_message_timer and
\* check_auto_save, each comparing the clock with its threshold.
TimedHead(co) ==
    /\ pc = "running"
    /\ timers.phase = "head"
    /\ LET elapsed == timers.msg_age >= MessageSeconds
           due == timers.save_age >= AutoSaveInterval
       IN  \E env \in EnvFor(co, due, "", FALSE) :
              LET s == check_auto_save(update_message_timer(App, elapsed), due, env)
              IN  /\ Becomes(s)
                  /\ primary' = Stored(primary, s.saves)
                  /\ timers' = [Restamp(timers, s) EXCEPT !.phase = "poll"]
    /\ last_event' = [kind |-> "tick", mode |-> mode, arm |-> ""]
    /\ UNCHANGED <<prev_nav_d, pc, backups, sv, task_time, terminal>>

\* The rest of an iteration that finds should_quit set: save and break.
TimedQuit(co) ==
    /\ pc = "running"
    /\ timers.phase = "poll"
    /\ should_quit
    /\ \E final \in EnvFor(co, TRUE, "", FALSE) :
          LET s == save_entries(App, final)
          IN  /\ Becomes(s)
              /\ primary' = Stored(primary, s.saves)
    /\ last_event' = [kind |-> "quit", mode |-> mode, arm |-> ""]
    /\ pc' = "done"
    /\ UNCHANGED <<prev_nav_d, backups, sv, task_time, terminal, timers>>

\* The rest of an iteration whose poll finds key k: handle_key, after which
\* dt seconds pass until the head of the next iteration.
TimedKey(k, co, dt) ==
    /\ pc = "running"
    /\ timers.phase = "poll"
    /\ ~should_quit
    /\ prev_nav_d' = (mode = "Navigation" /\ k = "d")
    /\ UNCHANGED <<backups, sv, task_time, terminal>>
    /\ \E env \in EnvFor(co, MaySave(mode, k), k, entries = <<>>) :
          LET s == handle_key(App, k, env)
          IN  IF s.panicked
              THEN /\ pc' = "panicked"
                   /\ last_event' = [kind |-> "panic", mode |-> mode, arm |-> Arm(mode, k)]
                   /\ UNCHANGED <<entries, cursor, mode, should_quit, popup_scroll,
                                  text_cursor, pending_delete, status_message,
                                  message_timer, saves, edits, primary, timers>>
              ELSE /\ WithinBounds(s)
                   /\ Becomes(s)
                   /\ primary' = Stored(primary, s.saves)
                   /\ timers' = Pass(Restamp(timers, s), dt)
                   /\ last_event' = [kind |-> "key", mode |-> mode, arm |-> Arm(mode, k)]
                   /\ pc' = "running"

\* The rest of an iteration whose poll times out after 100 ms without a key.
TimedTimeout(dt) ==
    /\ pc = "running"
    /\ timers.phase = "poll"
    /\ ~should_quit
    /\ timers' = Pass(timers, dt)
    /\ UNCHANGED <<entries, cursor, mode, should_quit, popup_scroll, text_cursor,
                   pending_delete, status_message, message_timer, saves, edits,
                   primary, last_event, prev_nav_d, pc, backups, sv, task_time,
                   terminal>>

\* The keys of the timed sessions: copy a field (a message), edit and leave
\* the edit (saves that record their time), quit.
TimerKeysFor(m) ==
    CASE m = "Navigation" -> {"^y", "i", "q"}
      [] m = "Editing" -> TypedKeys \cup {"Esc"}
      [] OTHER -> {}

\* An iteration takes less than a second: between two heads the clock shows
\* the same second or the next one.
Seconds == 0..1

InitTimers == InitFrom({Unreadable})

NextTimers ==
    \/ TimedHead(FaultyStorage)
    \/ TimedQuit(FaultyStorage)
    \/ \E k \in TimerKeysFor(mode), dt \in Seconds : TimedKey(k, FaultyStorage, dt)
    \/ \E dt \in Seconds : TimedTimeout(dt)

\* The sessions of App::run with the clock, on a storage that may fail.
SpecTimers == InitTimers /\ [][NextTimers]_vars

\* An iteration during which the clock moves to the next second.
SecondPasses ==
    \/ \E k \in TimerKeysFor(mode) : TimedKey(k, FaultyStorage, 1)
    \/ TimedTimeout(1)

\* The same sessions where the loop keeps iterating (poll returns after
\* 100 ms at the latest) and the clock keeps advancing.
SpecTimersFair ==
    /\ SpecTimers
    /\ WF_vars(TimedHead(FaultyStorage))
    /\ WF_vars(TimedQuit(FaultyStorage))
    /\ SF_vars(SecondPasses)

\* ------------------------------------------------------------------ claims

\* The last step was a key event handled to completion by arm a of mode m.
After(m, a) == last_event = [kind |-> "key", mode |-> m, arm |-> a]

\* C1: in every reachable state, whatever the storage returned at startup (a
\* zero-entry list included), the entry list holds at least one entry.
C1_NeverEmpty == Len(entries) >= 1

\* C2: from a non-empty list, after every key event, cursor.row < len(entries)
\* and cursor.col is one of 1..5.
C2_CursorInBounds ==
    entries # <<>> => (cursor.row < Len(entries) /\ cursor.col \in 1..5)

\* A row deletion that clamped the cursor: the last of three rows was deleted.
C2_Witness ==
    /\ After("ConfirmDeleteEntry", "y")
    /\ entries = <<RowD, RowA>>
    /\ cursor.row = 1

\* C3: outside Help and the confirmation modes, the mode is a popup mode if
\* and only if the cursor is on column 3.
C3_ModeColumnCoupling ==
    mode \notin {"Help", "ConfirmDeleteEntry", "ConfirmClearEntries"}
        => (mode \in {"ViewingPopup", "EditingPopup"} <=> cursor.col = 3)

\* Column 3 reached by a column step taken while editing.
C3_Witness ==
    /\ After("Editing", "Enter")
    /\ mode = "EditingPopup"
    /\ cursor.col = 3

\* The step is a key event handled to completion by arm a of mode m.
KeyStep(m, a) == last_event' = [kind |-> "key", mode |-> m, arm |-> a]
\* The step is a key event handled to completion.
AnyKeyStep == last_event'.kind = "key"

ConfirmModes == {"ConfirmDeleteEntry", "ConfirmClearEntries"}

\* C4: the pending-delete flag is set only by a `d` pressed in Navigation, and
\* after any next key event, whatever the key, the flag is false again.
C4_PendingOneShot ==
    [][/\ (AnyKeyStep /\ pending_delete) => ~pending_delete'
       /\ (~pending_delete /\ pending_delete') => KeyStep("Navigation", "d")]_vars

\* C5: ConfirmDeleteEntry is entered only by a `d` in Navigation whose
\* immediately preceding key event was also a `d` handled in Navigation; a `d`
\* that does not follow such a `d` changes no mode.
C5_TwoStepDelete ==
    [][/\ (mode # "ConfirmDeleteEntry" /\ mode' = "ConfirmDeleteEntry")
            => (KeyStep("Navigation", "d") /\ prev_nav_d)
       /\ (KeyStep("Navigation", "d") /\ ~prev_nav_d) => mode' = mode]_vars

\* The list es without its row at 0-based index r, the others in order.
Without(es, r) ==
    [i \in 1..(Len(es) - 1) |-> IF i <= r THEN es[i] ELSE es[i + 1]]

\* What C6 says of one row deletion from the list es with the cursor on row r.
DeletionEffect(es, r) ==
    /\ IF Len(es) = 1
       THEN entries' = <<TimeEntry_new>>
       ELSE /\ entries' = Without(es, r)
            /\ cursor'.row = IF r > Len(es) - 2 THEN Len(es) - 2 ELSE r
    /\ cursor'.col = 1
    /\ mode' = "Navigation"

\* C6: y/Y in ConfirmDeleteEntry replaces the only row by a blank one, or else
\* removes exactly the row at cursor.row and clamps cursor.row; in both cases
\* cursor.col becomes 1 and the mode Navigation.
C6_RowDeletion ==
    [][(last_event'.kind \in {"key", "panic"}
            /\ last_event'.mode = "ConfirmDeleteEntry" /\ last_event'.arm = "y")
          => /\ pc' = "running"
             /\ DeletionEffect(entries, cursor.row)]_vars

\* C6 on the lists that have a row: every completed deletion has that effect.
C6_DeletionOfARow ==
    [][KeyStep("ConfirmDeleteEntry", "y") => DeletionEffect(entries, cursor.row)]_vars

C8_ConfirmGates ==
    [][/\ (mode # "ConfirmDeleteEntry" /\ mode' = "ConfirmDeleteEntry")
            => (mode = "Navigation" /\ KeyStep("Navigation", "d") /\ prev_nav_d)
       /\ (mode # "ConfirmClearEntries" /\ mode' = "ConfirmClearEntries")
            => (mode = "Navigation" /\ KeyStep("Navigation", "^x"))
       /\ \A m \in ConfirmModes :
            (KeyStep(m, "y") \/ KeyStep(m, "n")) => mode' = "Navigation"]_vars

\* C9: after y/Y in ConfirmClearEntries the list is one blank entry, the
\* cursor is (0, 1), the mode is Navigation and save_entries was called with
\* that one-entry list.
C9_ClearAll ==
    After("ConfirmClearEntries", "y")
        => /\ entries = <<TimeEntry_new>>
           /\ cursor = [row |-> 0, col |-> 1]
           /\ mode = "Navigation"
           /\ \E i \in 1..Len(saves) : saves[i].list = <<TimeEntry_new>>

\* Clear-all was confirmed with the cursor off its home position (the text
\* cursor still holds the length of the field that was selected).
C9_Witness ==
    /\ After("ConfirmClearEntries", "y")
    /\ text_cursor > 0

\* The cursor's row is the last one and that row is complete.
OnCompleteLastRow ==
    /\ entries # <<>>
    /\ cursor.row = Len(entries) - 1
    /\ is_complete(entries[Len(entries)])

\* C10 as stated: when Esc ends an edit on the complete last row, a blank row
\* is appended and the cursor is then on the new row at column 1.
C10_EscMovesToNewRow ==
    [][(KeyStep("Editing", "Esc") /\ OnCompleteLastRow)
          => /\ entries' = Append(entries, TimeEntry_new)
             /\ cursor' = [row |-> Len(entries), col |-> 1]]_vars

\* C10 amended: when Esc in Editing ends an edit on the complete last row, a
\* blank row is appended, the mode becomes Navigation and the cursor stays on
\* the edited row and column.
C10_EscAppendsRow ==
    [][(KeyStep("Editing", "Esc") /\ OnCompleteLastRow)
          => /\ entries' = Append(entries, TimeEntry_new)
             /\ cursor' = cursor
             /\ mode' = "Navigation"]_vars

\* Esc in Editing has appended the blank row; the cursor is on the row above.
C10_Witness ==
    /\ After("Editing", "Esc")
    /\ Len(entries) = 2
    /\ entries[2] = TimeEntry_new
    /\ is_complete(entries[1])
    /\ cursor.row = 0

\* The step is a key press that took arm a of mode m, whether the handler
\* ran to completion or panicked.
Pressed(m, a) ==
    /\ last_event'.kind \in {"key", "panic"}
    /\ last_event'.mode = m
    /\ last_event'.arm = a

\* C11: from Editing the first Esc leads to Navigation, and a further Esc (the
\* catch-all arm of Navigation) leaves the mode Navigation and changes neither
\* the entry list nor the cursor.
C11_EscIdempotent ==
    [][/\ Pressed("Editing", "Esc") => (pc' = "running" /\ mode' = "Navigation")
       /\ Pressed("Navigation", "_")
            => (pc' = "running" /\ mode' = "Navigation" /\ UNCHANGED <<entries, cursor>>)]_vars

\* C11 on the Esc presses that are handled to completion.
C11_EscSettles ==
    [][/\ KeyStep("Editing", "Esc") => mode' = "Navigation"
       /\ KeyStep("Navigation", "_")
            => (mode' = "Navigation" /\ UNCHANGED <<entries, cursor>>)]_vars

\* Some save_entries call of the step returned an error; the step is a key
\* event or a timer iteration (not the final save of quit).
SaveFailed ==
    /\ last_event'.kind \in {"key", "tick"}
    /\ \E i \in 1..Len(saves') : saves'[i].result = "err"

\* Collaborators that all succeed.
AllOk == [save |-> "ok", export |-> "ok", clip |-> "ok", overflow_checks |-> TRUE]

\* entries, cursor and mode after the step are those the same event leaves
\* with a storage that succeeds.
AsIfSaved ==
    IF last_event'.kind = "tick"
    THEN UNCHANGED <<entries, cursor, mode>>
    ELSE \E k \in KeysFor(mode) :
            /\ Arm(mode, k) = last_event'.arm
            /\ LET s == handle_key(App, k, AllOk)
               IN  <<entries', cursor', mode'>> = <<s.entries, s.cursor, s.mode>>

\* C12: whenever a persistence attempt fails (after an insertion or deletion,
\* on leaving edit mode, on row deletion, clear-all, export or the interval
\* auto-save) the session continues, a status message is set, and entries,
\* cursor and mode are what they would be had the attempt succeeded.
C12_FailedSaveReported ==
    [][SaveFailed => /\ pc' = "running"
                     /\ status_message' # <<>>
                     /\ message_timer' = "Some"
                     /\ AsIfSaved]_vars

\* C12 without the status message: a failed attempt neither ends the session
\* nor changes what the event leaves in memory.
C12_FailedSaveHarmless ==
    [][SaveFailed => (pc' = "running" /\ AsIfSaved)]_vars

\* The step is Ctrl+S in Navigation whose CSV export failed: export returned
\* at `export_csv(...)?`, before save_entries.
ExportFailed == KeyStep("Navigation", "^s") /\ saves' = <<>>

\* C13: a failed export is reported by a status message, is not fatal and
\* leaves entries, cursor and mode unchanged.
C13_FailedExportReported ==
    [][ExportFailed => /\ pc' = "running"
                       /\ status_message' # <<>>
                       /\ message_timer' = "Some"
                       /\ UNCHANGED <<entries, cursor, mode>>]_vars

\* C13 without the status message: Ctrl+S in Navigation never ends the
\* session and changes neither entries nor cursor nor mode.
C13_ExportHarmless ==
    [][Pressed("Navigation", "^s")
          => (pc' = "running" /\ UNCHANGED <<entries, cursor, mode>>)]_vars

\* entries.json holds exactly the in-memory list.
PrimaryIsCurrent == primary = File(entries)

\* The step is a key event that inserted or deleted a character.
EditedChar == AnyKeyStep /\ edits' > edits

\* The step is Ctrl+S in Navigation with an export and a storage that succeed.
Exported ==
    /\ KeyStep("Navigation", "^s")
    /\ saves' = handle_key(App, "^s", AllOk).saves

\* The step is a key event after which the claim C14 expects the store to be
\* current, Esc in EditingPopup apart.
PersistingEvent ==
    \/ EditedChar
    \/ KeyStep("Editing", "Esc")
    \/ KeyStep("ConfirmDeleteEntry", "y")
    \/ KeyStep("ConfirmClearEntries", "y")
    \/ Exported

\* C14 as stated: with a storage that succeeds, after every key event that
\* inserts or deletes a character, leaves Editing or EditingPopup with Esc,
\* confirms a row deletion or a clear-all, or exports, entries.json holds
\* exactly the in-memory list.
C14_StoreCurrentAfterTriggers ==
    [][(PersistingEvent \/ KeyStep("EditingPopup", "Esc")) => PrimaryIsCurrent']_vars

\* C14 amended: the same with Esc in Editing (exit_edit) as the only Esc
\* trigger; Esc in EditingPopup makes no persistence attempt.
C14_StoreCurrentAfterSaves ==
    [][/\ PersistingEvent => PrimaryIsCurrent'
       /\ KeyStep("EditingPopup", "Esc") => (saves' = <<>> /\ primary' = primary)]_vars

\* A character was typed into the only row and stored.
C14_Witness ==
    /\ After("Editing", "Char")
    /\ edits = 1
    /\ primary = File(entries)
    /\ Len(entries[1].task_number) = 1

\* The step performs operation op of save_entries.
Does(op) == sv'.ops # sv.ops /\ sv'.ops[Len(sv'.ops)] = op

\* The sweep came right after the backup write of the same attempt.
AfterBackup == sv.ops = <<"backup_ok">>
\* The backup write and then the sweep of the same attempt are done.
AfterSweep == sv.ops \in {<<"backup_ok", "sweep_complete">>, <<"backup_ok", "sweep_partial">>}

\* C15: every persistence attempt (1) writes a timestamped backup of the
\* current list, then (2) sweeps, leaving at most the 10 most recently
\* modified backups when the deletions succeed, then (3) overwrites
\* entries.json; entries.json is never overwritten in an attempt whose backup
\* write failed.
C15_SaveProtocol ==
    [][/\ Does("backup_ok") =>
            (sv.pc = "idle" /\ Backup(sv.now, sv.now, entries) \in backups')
       /\ (Does("sweep_complete") \/ Does("sweep_partial") \/ Does("readdir_err"))
            => AfterBackup
       /\ Does("sweep_complete") =>
            /\ Cardinality(backups') <= KeptBackups
            /\ backups' \subseteq backups
            /\ \A k \in backups', r \in backups \ backups' : r.mtime <= k.mtime
       /\ (Does("write_ok") \/ Does("write_err") \/ primary' # primary)
            => (AfterSweep /\ primary' \in {primary, File(entries)})
       /\ Does("backup_err") => (sv'.pc = "idle" /\ primary' = primary)]_vars

\* A complete attempt over a full directory: the backup was written, the
\* sweep removed an old backup and kept 10, entries.json was overwritten.
C15_Witness ==
    /\ sv.ops = <<"backup_ok", "sweep_complete", "write_ok">>
    /\ Cardinality(backups) = KeptBackups
    /\ Backup(sv.now, sv.now, entries) \in backups
    /\ Old(KeptBackups) \ backups # {}
    /\ primary = File(entries)

IsTimeOfDay(s) ==
    LET t == strip_colons(s)
    IN  /\ Len(t) = 4
        /\ \A i \in 1..4 : t[i] \in Digits
        /\ 10 * DigitVal(t[1]) + DigitVal(t[2]) < 24
        /\ 10 * DigitVal(t[3]) + DigitVal(t[4]) < 60

\* Minutes since midnight of a time of day.
MinuteOfDay(s) ==
    LET t == strip_colons(s)
    IN  600 * DigitVal(t[1]) + 60 * DigitVal(t[2]) + 10 * DigitVal(t[3]) + DigitVal(t[4])

\* The HH:MM rendering of m minutes.
HHMM(m) ==
    <<DigitChars[(m \div 600) + 1], DigitChars[((m \div 60) % 10) + 1], ":",
      DigitChars[((m % 60) \div 10) + 1], DigitChars[(m % 10) + 1]>>

\* The duration C17 expects for the strings a and b.
ExpectedTaskTime(a, b) ==
    IF IsTimeOfDay(a) /\ IsTimeOfDay(b) /\ MinuteOfDay(b) >= MinuteOfDay(a)
    THEN Some(HHMM(MinuteOfDay(b) - MinuteOfDay(a)))
    ELSE None

\* C17: for every pair of start/end strings the task duration is the HH:MM
\* rendering of end - start exactly when both strings are times of day and
\* end >= start, and is absent otherwise.
C17_Duration ==
    task_time # NotCalled
        => task_time = ExpectedTaskTime(entries[1].start_time, entries[1].end_time)

\* C17 on the strings whose bytes are digits, colons and letters.
C17_DurationOfPlainStrings ==
    LET a == entries[1].start_time
        b == entries[1].end_time
        plain(s) == \A i \in 1..Len(s) : s[i] \in Digits \cup {":", "a", "b", "c"}
    IN  (task_time # NotCalled /\ plain(a) /\ plain(b))
            => task_time = ExpectedTaskTime(a, b)

\* The examples of C17: 09:00..17:30 gives 08:30.
C17_Example ==
    (/\ task_time # NotCalled
     /\ entries[1].start_time = <<"0", "9", ":", "0", "0">>
     /\ entries[1].end_time = <<"1", "7", ":", "3", "0">>)
        => task_time = Some(<<"0", "8", ":", "3", "0">>)

\* The terminal is in its normal state.
Unwound == ~terminal.raw_mode /\ ~terminal.alternate_screen

\* C18: when a startup step after enable_raw_mode fails (entering the
\* alternate screen, creating the terminal, App::new / config load), raw mode
\* is disabled and the alternate screen left before the error leaves main.
C18_StartupUnwinds == pc = "startup_failed" => Unwound

\* After a session that ran and a cleanup that succeeded the terminal is in
\* its normal state.
C18_ExitUnwinds == pc = "exited" => Unwound

\* C19 as stated: whenever Editing or EditingPopup is left with Esc on the
\* last row and that row is complete, exactly one blank entry is appended;
\* when the row is not last or not complete, Esc leaves the list unchanged.
C19_EscAutoAppend ==
    [][\A m \in {"Editing", "EditingPopup"} :
          KeyStep(m, "Esc") =>
              entries' = IF OnCompleteLastRow
                         THEN Append(entries, TimeEntry_new) ELSE entries]_vars

\* C19 amended: the auto-append happens when Editing is left with Esc
\* (exit_edit); Esc in EditingPopup returns to ViewingPopup and never changes
\* the list, whatever the row.
C19_EditingEscAutoAppend ==
    [][/\ KeyStep("Editing", "Esc") =>
              entries' = IF OnCompleteLastRow
                         THEN Append(entries, TimeEntry_new) ELSE entries
       /\ KeyStep("EditingPopup", "Esc") =>
              (entries' = entries /\ mode' = "ViewingPopup")]_vars

\* Esc has left EditingPopup on a complete last row and no row was appended.
C19_Witness ==
    /\ After("EditingPopup", "Esc")
    /\ mode = "ViewingPopup"
    /\ Len(entries) = 1
    /\ cursor.row = 0
    /\ is_complete(entries[1])

\* The cursor is on the last row of a non-empty list.
OnLastRow ==
    /\ entries # <<>>
    /\ cursor.row = Len(entries) - 1

\* C20 as stated: an Up or Down arrow in Navigation never changes cursor.col
\* and never changes the number of entries; Down on the last row leaves the
\* row and the list unchanged, also when that row is complete.
C20_RowOnlyNavigation ==
    [][/\ \A a \in {"Up", "Down"} :
              KeyStep("Navigation", a) =>
                  /\ cursor'.col = cursor.col
                  /\ Len(entries') = Len(entries)
       /\ (KeyStep("Navigation", "Down") /\ OnLastRow) =>
              (cursor'.row = cursor.row /\ entries' = entries)]_vars

\* C20 amended: an Up or Down arrow in Navigation never changes cursor.col;
\* Up never changes the list; Down changes the list only on the last row when
\* that row is complete, where it appends one blank entry and moves onto it;
\* Down on an incomplete last row leaves the row and the list unchanged.
C20_DownAutoCreates ==
    [][/\ \A a \in {"Up", "Down"} :
              KeyStep("Navigation", a) => cursor'.col = cursor.col
       /\ KeyStep("Navigation", "Up") => entries' = entries
       /\ KeyStep("Navigation", "Down") =>
              IF OnCompleteLastRow
              THEN /\ entries' = Append(entries, TimeEntry_new)
                   /\ cursor'.row = cursor.row + 1
              ELSE /\ entries' = entries
                   /\ OnLastRow => cursor'.row = cursor.row]_vars

\* Down in Navigation has been pressed on a complete last row: a blank row was
\* appended and the cursor is on it.
C20_Witness ==
    /\ After("Navigation", "Down")
    /\ Len(entries) >= 2
    /\ entries[Len(entries)] = TimeEntry_new
    /\ is_complete(entries[Len(entries) - 1])
    /\ cursor.row = Len(entries) - 1
    /\ mode = "Navigation"

\* The step is a backward column step (prev_col) handled to completion:
\* Shift-Tab or Left in Navigation or ViewingPopup, Shift-Tab in Editing or
\* EditingPopup.
BackwardStep ==
    \/ \E m \in {"Navigation", "ViewingPopup"}, a \in {"BackTab", "Left"} : KeyStep(m, a)
    \/ \E m \in {"Editing", "EditingPopup"} : KeyStep(m, "BackTab")

\* C21: a backward column step (Shift-Tab or Left) from column 1 at row r > 0
\* leaves the cursor at (r-1, 5); at row 0 it is a no-op: the cursor stays at
\* (0, 1) and the mode is unchanged.
C21_BackwardFromFirstColumn ==
    [][(BackwardStep /\ cursor.col = 1) =>
          IF cursor.row > 0
          THEN cursor' = [row |-> cursor.row - 1, col |-> 5]
          ELSE cursor' = cursor /\ mode' = mode]_vars

\* The part of C21 that holds: from column 1 at row r > 0 the step leaves the
\* cursor at (r-1, 5), and at row 0 it leaves the row and the mode unchanged.
C21_BackwardWraps ==
    [][(BackwardStep /\ cursor.col = 1) =>
          /\ cursor'.col = 5
          /\ cursor'.row = IF cursor.row > 0 THEN cursor.row - 1 ELSE 0
          /\ mode' = mode]_vars

\* The (mode, arm) pairs of handle_key that are a forward column step
\* (next_col): Tab or Right in Navigation or ViewingPopup, Tab in Editing or
\* EditingPopup, Enter in Editing.
ForwardArms ==
    ({"Navigation", "ViewingPopup"} \X {"Tab", "Right"})
        \cup ({"Editing", "EditingPopup"} \X {"Tab"})
        \cup {<<"Editing", "Enter">>}

\* The step is a forward column step handled to completion.
ForwardStep == \E p \in ForwardArms : KeyStep(p[1], p[2])
\* The step is a forward column step, handled to completion or not.
ForwardPress == \E p \in ForwardArms : Pressed(p[1], p[2])

\* What C22 says a forward column step does to the cursor and the list.
ForwardOutcome ==
    IF cursor.col = 5
    THEN IF cursor.row # Len(entries) - 1
         THEN cursor' = [row |-> cursor.row + 1, col |-> 1]
         ELSE IF is_complete(entries[Len(entries)])
         THEN /\ entries' = Append(entries, TimeEntry_new)
              /\ cursor' = [row |-> cursor.row + 1, col |-> 1]
         ELSE /\ entries' = entries
              /\ cursor'.row = cursor.row
    ELSE /\ cursor' = [cursor EXCEPT !.col = @ + 1]
         /\ entries' = entries

\* C22: a forward column step (Tab, Right, or Enter in Editing) from column 5
\* leaves the cursor at (row+1, 1) when the row is not the last, appends
\* exactly one blank row and leaves the cursor at (row+1, 1) when the row is
\* the last and complete, and appends nothing and does not advance the row
\* when it is the last and incomplete; from columns 1-4 it only increments the
\* column and never changes the list.
C22_ForwardColumnStep == [][ForwardPress => ForwardOutcome]_vars

\* C22 on the steps that are handled to completion (those on a list with at
\* least one entry, and those of a build without overflow checks).
C22_ForwardColumnStepCompleted ==
    [][ForwardStep => (ForwardOutcome /\ (cursor.row # Len(entries) - 1 => entries' = entries))]_vars

\* The (mode, arm) pairs that are a column step: the forward ones and
\* Shift-Tab in every cursor mode, Left in Navigation and ViewingPopup.
ColumnArms ==
    ForwardArms
        \cup ({"Navigation", "ViewingPopup", "Editing", "EditingPopup"} \X {"BackTab"})
        \cup ({"Navigation", "ViewingPopup"} \X {"Left"})

EditModes == {"Editing", "EditingPopup"}
ViewModes == {"Navigation", "ViewingPopup"}

\* C23: a column step taken in Editing or EditingPopup (Tab, Shift-Tab, Enter
\* in Editing) ends in Editing when the new column is not 3 and in
\* EditingPopup when it is 3; a column step taken in Navigation or
\* ViewingPopup ends in Navigation or ViewingPopup; a column step never
\* switches between viewing and editing.
C23_ColumnStepKeepsEditState ==
    [][\A p \in ColumnArms :
          Pressed(p[1], p[2]) =>
              /\ mode = p[1]
              /\ mode \in EditModes =>
                    mode' = IF cursor'.col = 3 THEN "EditingPopup" ELSE "Editing"
              /\ mode \in ViewModes => mode' \in ViewModes]_vars

\* A column step taken in Editing has ended in EditingPopup on column 3.
C23_Witness ==
    /\ After("Editing", "Tab")
    /\ mode = "EditingPopup"
    /\ cursor.col = 3

\* C24: in every reachable state whose mode is Editing or EditingPopup,
\* 0 <= text_cursor <= the length of the field selected by (cursor.row,
\* cursor.col).
C24_TextCursorInBounds ==
    mode \in EditModes =>
        (text_cursor >= 0 /\ text_cursor <= get_current_field_length(App))

\* A character was typed at the end of a non-empty field: the text cursor is
\* at the new end of the field.
C24_Witness ==
    /\ After("Editing", "Char")
    /\ mode = "Editing"
    /\ text_cursor >= 2
    /\ text_cursor = get_current_field_length(App)

\* The length of the field of list es that cursor c selects (0 when c selects
\* none).
SelectedLength(es, c) ==
    IF c.row < Len(es) /\ c.col \in 1..5
    THEN Len(es[c.row + 1][FieldName(c.col)])
    ELSE 0

\* C25: after every key event that changes the selected field (a change of
\* cursor row or column by navigation, row wrap, deletion or the cursor reset
\* of clear-all), text_cursor equals the length of the newly selected field.
C25_TextCursorReanchored ==
    [][(AnyKeyStep /\ cursor' # cursor) =>
          text_cursor' = SelectedLength(entries', cursor')]_vars

\* C25 for every key event but a confirmed clear-all.
C25_ReanchoredUnlessCleared ==
    [][(AnyKeyStep /\ cursor' # cursor /\ ~KeyStep("ConfirmClearEntries", "y")) =>
          text_cursor' = SelectedLength(entries', cursor')]_vars

\* The text of the field the popup editor shows.
Text == entries[cursor.row + 1].time_entry

\* The line breaks before, resp. at or after, the text cursor.
BreaksBefore == {i \in 1..text_cursor : Text[i] = "\n"}
BreaksAfter == {i \in (text_cursor + 1)..Len(Text) : Text[i] = "\n"}
\* The text cursor is on the first, resp. the last, line of the text.
OnFirstLine == BreaksBefore = {}
OnLastLine == BreaksAfter = {}

\* C26: in EditingPopup, Up with the text cursor on the first line and Down
\* with the text cursor on the last line leave text_cursor unchanged, for every
\* text (ending with a line break or containing empty lines included) and
\* every offset in [0, length]; Down never moves the cursor to a smaller
\* offset.
C26_VerticalEdges ==
    [][/\ (KeyStep("EditingPopup", "Up") /\ OnFirstLine) => text_cursor' = text_cursor
       /\ (KeyStep("EditingPopup", "Down") /\ OnLastLine) => text_cursor' = text_cursor
       /\ KeyStep("EditingPopup", "Down") => text_cursor' >= text_cursor]_vars

\* The text ends with a line break.
EndsWithBreak == Text # <<>> /\ Text[Len(Text)] = "\n"

\* The part of C26 that holds: Up on the first line is a no-op for every text,
\* and Down on the last line is a no-op and Down never moves backwards for
\* every text that does not end with a line break.
C26_EdgesWithoutFinalBreak ==
    [][/\ (KeyStep("EditingPopup", "Up") /\ OnFirstLine) => text_cursor' = text_cursor
       /\ (KeyStep("EditingPopup", "Down") /\ OnLastLine /\ ~EndsWithBreak)
              => text_cursor' = text_cursor
       /\ (KeyStep("EditingPopup", "Down") /\ ~EndsWithBreak)
              => text_cursor' >= text_cursor]_vars

\* The lines of the text: what the line breaks separate, the line after a
\* final line break included.
TextLines == SplitNL(Text)
\* The line the text cursor is on (0-based) and its position in that line.
LineOfCursor == Cardinality(BreaksBefore)
PosInLine == text_cursor - CharCount(TextLines, LineOfCursor)
\* The offset of position Min(PosInLine, length of line k) in line k: the
\* lengths of the preceding lines plus one per preceding line break.
OffsetInLine(k) == CharCount(TextLines, k) + Min(PosInLine, Len(TextLines[k + 1]))

\* C27: in EditingPopup, with the text cursor on line k at in-line position p,
\* Up (k not first) sets text_cursor to the offset of position min(p, length
\* of line k-1) in line k-1 and Down (k not last) to that of position min(p,
\* length of line k+1) in line k+1; the result is never beyond the end of the
\* target line.
C27_VerticalMapping ==
    [][/\ (KeyStep("EditingPopup", "Up") /\ ~OnFirstLine)
              => text_cursor' = OffsetInLine(LineOfCursor - 1)
       /\ (KeyStep("EditingPopup", "Down") /\ ~OnLastLine)
              => text_cursor' = OffsetInLine(LineOfCursor + 1)]_vars

\* C27 for every text that does not end with a line break.
C27_MappingWithoutFinalBreak ==
    [][~EndsWithBreak =>
          /\ (KeyStep("EditingPopup", "Up") /\ ~OnFirstLine)
                => text_cursor' = OffsetInLine(LineOfCursor - 1)
          /\ (KeyStep("EditingPopup", "Down") /\ ~OnLastLine)
                => text_cursor' = OffsetInLine(LineOfCursor + 1)]_vars

\* The step is the head of an iteration of App::run (the per-tick checks).
HeadStep == timers.phase = "head" /\ timers'.phase = "poll"
\* The save_entries call of the interval check in a head step, if any.
IntervalSaveTried == saves' # <<>>
IntervalSaveOk == saves' # <<>> /\ saves'[1].result = "ok"
IntervalSaveFailed == saves' # <<>> /\ saves'[1].result # "ok"

\* C28: at the head of every iteration a save is attempted exactly when at
\* least 30 seconds have passed since the last recorded save, whether keys are
\* pressed or not; a successful auto-save records its time, so that the next
\* one is at least 30 seconds later (the age of the recorded save grows only
\* with the clock); a failed one leaves the recorded time as it was, so that
\* the save is due, and attempted, again at the following head.
C28_IntervalAutoSave ==
    [][/\ HeadStep =>
              /\ IntervalSaveTried <=> (timers.save_age >= AutoSaveInterval)
              /\ IntervalSaveOk => timers'.save_age = 0
              /\ IntervalSaveFailed =>
                    /\ timers'.save_age = timers.save_age
                    /\ status_message' = <<"Auto-save failed">>
       /\ ~HeadStep =>
              \/ timers'.save_age \in {timers.save_age, timers.save_age + 1}
              \/ /\ timers'.save_age \in Seconds
                 /\ saves' # <<>>
                 /\ saves'[Len(saves')].result = "ok"]_vars

\* An interval save that failed has been retried at a later head and has
\* succeeded there: the failure's message is still shown, the recorded time
\* is that of the retry.
C28_Witness ==
    /\ last_event.kind = "tick"
    /\ timers.phase = "poll"
    /\ Len(saves) = 1
    /\ saves[1].result = "ok"
    /\ timers.save_age = 0
    /\ status_message = <<"Auto-save failed">>

\* A status message is present exactly when its timer is present.
MessageHasTimer == (status_message # <<>>) <=> (message_timer = "Some")

\* C29: a status message is present exactly when its timer is present, and
\* every status message is cleared by the per-tick timer check once 3 seconds
\* have passed since it was shown, with or without key events: no message
\* stays displayed indefinitely (while the session runs, the status line is
\* empty again and again unless key events keep showing messages), the message
\* of a failing auto-save included.
C29_MessageExpires ==
    /\ []MessageHasTimer
    /\ []<>(status_message = <<>> \/ last_event.kind = "key" \/ pc # "running")

\* The part of C29 that holds: the message and its timer are present
\* together; the head of an iteration clears a message that was shown 3
\* seconds ago or more; and a message left on the status line at a head is
\* less than 3 seconds old or was shown by that head's failing auto-save.
C29_ExpiresUnlessAutoSaveFails ==
    /\ []MessageHasTimer
    /\ [][HeadStep =>
            /\ timers.msg_age >= MessageSeconds =>
                  (status_message' = <<>> \/ IntervalSaveFailed)
            /\ status_message' # <<>> =>
                  (timers.msg_age < MessageSeconds \/ IntervalSaveFailed)]_vars
    /\ []<>(\/ status_message = <<>>
            \/ last_event.kind = "key"
            \/ pc # "running"
            \/ status_message = <<"Auto-save failed">>)

\* The last step was an insertion or a deletion in an editing mode that
\* panicked.
TypingPanicked ==
    /\ last_event.kind = "panic"
    /\ last_event.mode \in EditModes
    /\ last_event.arm \in {"Char", "Backspace"}
           \cup (IF last_event.mode = "EditingPopup" THEN {"Enter"} ELSE {})

\* C30: for every sequence of printable characters typed in Editing or
\* EditingPopup, characters of more than one byte included, followed by
\* further insertions, Backspace or Left/Right, insert and delete complete
\* without error.
C30_TypingNeverFails == ~TypingPanicked

\* The part of C30 that holds: an insertion or deletion fails only in a field
\* that holds a character of more than one byte.
C30_OneByteTypingNeverFails ==
    TypingPanicked => \E i \in 1..Len(Text) : Text[i] \in Cont

FieldNames == {FieldName(c) : c \in 1..5}

\* The fields that exist before and after the step and whose text the step
\* changes, as (row, field) pairs.
ChangedFields ==
    {p \in (1..Min(Len(entries), Len(entries'))) \X FieldNames :
        entries'[p[1]][p[2]] # entries[p[1]][p[2]]}

\* The keys that edit text: a character or Backspace in Editing and
\* EditingPopup, Enter in EditingPopup.
EditingArm ==
    /\ mode \in EditModes
    /\ last_event'.arm \in {"Char", "Backspace"}
           \cup (IF mode = "EditingPopup" THEN {"Enter"} ELSE {})

\* What C31 says of a key event: at most the field at the cursor changes, and
\* only by an editing key; Backspace at text cursor 0 changes nothing; in
\* Navigation, ViewingPopup and Help no existing field changes and at most one
\* blank row is appended.
EditFrame ==
    /\ ChangedFields \subseteq {<<cursor.row + 1, FieldName(cursor.col)>>}
    /\ ChangedFields # {} => EditingArm
    /\ (mode \in EditModes /\ last_event'.arm = "Backspace" /\ text_cursor = 0)
          => UNCHANGED <<entries, cursor, mode, text_cursor>>
    /\ mode \in {"Navigation", "ViewingPopup", "Help"}
          => entries' \in {entries, Append(entries, TimeEntry_new)}

ConfirmedRemoval == \E m \in ConfirmModes : KeyStep(m, "y")

C32_PopupScroll ==
    /\ [](cursor.col # 3 => popup_scroll = 0)
    /\ [][/\ (cursor.col # 3 /\ cursor'.col = 3) => popup_scroll' = 0
          /\ KeyStep("ViewingPopup", "Up") =>
                /\ popup_scroll' = IF popup_scroll > 0 THEN popup_scroll - 1 ELSE 0
                /\ UNCHANGED <<entries, cursor, mode, text_cursor>>
          /\ KeyStep("ViewingPopup", "Down") =>
                /\ popup_scroll' = popup_scroll + 1
                /\ UNCHANGED <<entries, cursor, mode, text_cursor>>]_vars

\* Down has scrolled the popup of column 3 by one line.
C32_Witness ==
    /\ After("ViewingPopup", "Down")
    /\ mode = "ViewingPopup"
    /\ cursor.col = 3
    /\ popup_scroll = 1

====
